---- MODULE Spec2Model ----
(***************************************************************************)
(* Goldphin AI backend (src/server.js): the POST /api/chat handler, the    *)
(* request formatter formatMessagesForProvider and the response extractor  *)
(* extractResponseText, modelled over JavaScript/JSON values.              *)
(***************************************************************************)
EXTENDS Integers, Sequences, FiniteSets, TLC

VARIABLES
    pc,          \* per request: "idle", "awaitFetch", "awaitJson", "done"
    reqBody,     \* per request: req.body as parsed by express.json()
    locals,      \* per request: the handler's let-variables endpoint, headers, body
    calls,       \* per request: the fetch() calls the handler has made
    responses,   \* per request: the responses written through res
    apiResponse, \* per request: what fetch() and apiResponse.json() resolved to
    caught,      \* per request: the exception the catch block received, if any
    exPc,        \* extractResponseText called on its own: "off", "call", "returned"
    exProvider,  \* its provider argument
    exData,      \* its data argument
    exResult     \* its return value

vars == <<pc, reqBody, locals, calls, responses, apiResponse, caught,
          exPc, exProvider, exData, exResult>>

(***************************************************************************)
(* JavaScript values.  Every value is a record [t, p, c]: t the type tag,  *)
(* p the text of a primitive (numbers and booleans by their literal), c    *)
(* the members of an object or array in insertion order, each [k, v].      *)
(***************************************************************************)
Prim(tag, text) == [t |-> tag, p |-> text, c |-> <<>>]
JUndef == Prim("undef", "")
JNull == Prim("null", "")
JTrue == Prim("bool", "true")
JFalse == Prim("bool", "false")
JNum(n) == Prim("num", ToString(n))
JStr(s) == Prim("str", s)
KV(key, val) == [k |-> key, v |-> val]
JObj(members) == [t |-> "obj", p |-> "", c |-> members]
JArr(items) == [t |-> "arr", p |-> "", c |-> [i \in 1..Len(items) |-> KV("", items[i])]]

IsArray(v) == v.t = "arr"
Items(v) == [i \in 1..Len(v.c) |-> v.c[i].v]

\* ToBoolean: what `!x`, `x || y` and `x && y` test.
Truthy(v) ==
    CASE v.t \in {"obj", "arr"} -> TRUE
      [] v.t = "str" -> v.p # ""
      [] v.t = "num" -> v.p # "0"
      [] v.t = "bool" -> v.p = "true"
      [] OTHER -> FALSE

\* x || y
Or(a, b) == IF Truthy(a) THEN a ELSE b

\* Reading a property of null or undefined raises a TypeError.
Throws(v) == v.t \in {"null", "undef"}

HasKey(v, key) == v.t = "obj" /\ \E i \in 1..Len(v.c) : v.c[i].k = key

\* v.key for v neither null nor undefined.  Only objects carry the keys the
\* program reads; on a string, number, boolean or array they are undefined.
Get(v, key) ==
    IF HasKey(v, key)
    THEN v.c[CHOOSE i \in 1..Len(v.c) : v.c[i].k = key].v
    ELSE JUndef

\* v[0] for v neither null nor undefined.  On a non-empty string it is the
\* one-character string; the program only ever reads a property of it, which
\* is undefined whatever the character.
Idx0(v) ==
    CASE v.t = "arr" -> IF Len(v.c) > 0 THEN v.c[1].v ELSE JUndef
      [] v.t = "str" -> IF v.p # "" THEN JStr("?") ELSE JUndef
      [] v.t = "obj" -> Get(v, "0")
      [] OTHER -> JUndef

\* v?.key and v?.[0]
OptGet(v, key) == IF Throws(v) THEN JUndef ELSE Get(v, key)
OptIdx0(v) == IF Throws(v) THEN JUndef ELSE Idx0(v)

\* JSON.stringify(v): members holding undefined are dropped from objects and
\* written as null in arrays.
\* No text of the model holds a quote or backslash,
\* so a string is written between quotes unescaped.
RECURSIVE Stringify(_)
RECURSIVE StringifyMembers(_, _, _)
StringifyMembers(members, isArr, first) ==
    IF members = <<>> THEN ""
    ELSE LET m == Head(members)
             skip == ~isArr /\ m.v.t = "undef"
             one == IF isArr
                    THEN (IF m.v.t = "undef" THEN "null" ELSE Stringify(m.v))
                    ELSE "\"" \o m.k \o "\":" \o Stringify(m.v)
         IN  IF skip THEN StringifyMembers(Tail(members), isArr, first)
             ELSE (IF first THEN "" ELSE ",") \o one
                  \o StringifyMembers(Tail(members), isArr, FALSE)
Stringify(v) ==
    CASE v.t = "str" -> "\"" \o v.p \o "\""
      [] v.t \in {"num", "bool"} -> v.p
      [] v.t = "null" -> "null"
      [] v.t = "arr" -> "[" \o StringifyMembers(v.c, TRUE, TRUE) \o "]"
      [] v.t = "obj" -> "{" \o StringifyMembers(v.c, FALSE, TRUE) \o "}"
      [] OTHER -> "undefined"

\* String(v), as a template literal `${v}` converts.
RECURSIVE ToStr(_)
RECURSIVE JoinItems(_, _)
JoinItems(members, first) ==
    IF members = <<>> THEN ""
    ELSE (IF first THEN "" ELSE ",")
         \o (IF Throws(Head(members).v) THEN "" ELSE ToStr(Head(members).v))
         \o JoinItems(Tail(members), FALSE)
ToStr(v) ==
    CASE v.t \in {"str", "num", "bool"} -> v.p
      [] v.t = "null" -> "null"
      [] v.t = "undef" -> "undefined"
      [] v.t = "arr" -> JoinItems(v.c, TRUE)
      [] OTHER -> "[object Object]"

\* { ...a, ...b } and obj[key] = val: a later key overwrites in place.
SetKey(obj, key, val) ==
    IF HasKey(obj, key)
    THEN JObj([i \in 1..Len(obj.c) |->
                 IF obj.c[i].k = key THEN KV(key, val) ELSE obj.c[i]])
    ELSE JObj(Append(obj.c, KV(key, val)))
RECURSIVE SpreadInto(_, _)
SpreadInto(obj, members) ==
    IF members = <<>> THEN obj
    ELSE SpreadInto(SetKey(obj, Head(members).k, Head(members).v), Tail(members))
Spread(a, b) == SpreadInto(a, b.c)

(***************************************************************************)
(* extractResponseText(provider, data)                                     *)
(***************************************************************************)
NoResponseGenerated == JStr("No response generated")
UnknownResponseFormat == JStr("Unknown response format")
ErrorParsingResponse == JStr("Error parsing response")

\* data.candidates?.[0]?.content?.parts?.[0]?.text
GeminiPath(data) ==
    OptGet(OptIdx0(OptGet(OptGet(OptIdx0(Get(data, "candidates")), "content"), "parts")), "text")
\* data.choices?.[0]?.message?.content
OpenAIPath(data) == OptGet(OptGet(OptIdx0(Get(data, "choices")), "message"), "content")
\* data.content?.[0]?.text
AnthropicPath(data) == OptGet(OptIdx0(Get(data, "content")), "text")

ExtractGemini(data) == Or(GeminiPath(data), NoResponseGenerated)
ExtractOpenAI(data) == Or(OpenAIPath(data), NoResponseGenerated)
ExtractAnthropic(data) == Or(AnthropicPath(data), NoResponseGenerated)
\* Mutation: message is tried before response.
ExtractCustom_MessageFirst(data) ==
    Or(Get(data, "message"),
    Or(Get(data, "response"),
    Or(Get(data, "text"),
    Or(OpenAIPath(data),
    Or(AnthropicPath(data),
       JStr(Stringify(data)))))))

ExtractCustom(data) ==
    Or(Get(data, "response"),
    Or(Get(data, "message"),
    Or(Get(data, "text"),
    Or(OpenAIPath(data),
    Or(AnthropicPath(data),
       JStr(Stringify(data)))))))

KnownProviders == {JStr("gemini"), JStr("openai"), JStr("anthropic"), JStr("custom")}

\* The switch inside the try block; `data.` on null raises, and the catch
\* returns the parse-error sentinel.
extractResponseText(provider, data) ==
    IF provider \in KnownProviders /\ Throws(data) THEN ErrorParsingResponse
    ELSE CASE provider = JStr("gemini") -> ExtractGemini(data)
           [] provider = JStr("openai") -> ExtractOpenAI(data)
           [] provider = JStr("anthropic") -> ExtractAnthropic(data)
           [] provider = JStr("custom") -> ExtractCustom(data)
           [] OTHER -> UnknownResponseFormat

(***************************************************************************)
(* Upstream JSON bodies                                                    *)
(***************************************************************************)
\* Values found at the end of an extraction path.
Leaves == {JStr("hi"), JStr(""), JNum(5), JNum(0), JNull, JFalse, JTrue,
           JObj(<<KV("a", JNum(1))>>), JArr(<<JStr("x")>>)}

GeminiBody(leaf) ==
    JObj(<<KV("candidates", JArr(<<JObj(<<KV("content",
        JObj(<<KV("parts", JArr(<<JObj(<<KV("text", leaf)>>)>>))>>))>>)>>))>>)
ChoicesOf(leaf) == JArr(<<JObj(<<KV("message", JObj(<<KV("content", leaf)>>))>>)>>)
ContentOf(leaf) == JArr(<<JObj(<<KV("text", leaf)>>)>>)
OpenAIBody(leaf) == JObj(<<KV("choices", ChoicesOf(leaf))>>)
AnthropicBody(leaf) == JObj(<<KV("content", ContentOf(leaf))>>)

\* The values a field of a custom body takes: absent, empty text, a text
\* naming the field, a number.
FieldVals(name) == {JUndef, JStr(""), JStr(name), JNum(5)}
Member(key, val) == IF val = JUndef THEN <<>> ELSE <<KV(key, val)>>
CustomBody(r, m, t, ch, co) ==
    JObj(Member("response", r) \o Member("message", m) \o Member("text", t)
         \o Member("choices", IF ch = JUndef THEN JUndef ELSE ChoicesOf(ch))
         \o Member("content", IF co = JUndef THEN JUndef ELSE ContentOf(co)))
CustomBodies ==
    {CustomBody(r, m, t, ch, co) :
        r \in FieldVals("r"), m \in FieldVals("m"), t \in FieldVals("t"),
        ch \in FieldVals("ch"), co \in FieldVals("co")}

OddBodies ==
    {JNull, JNum(5), JStr(""), JStr("text"), JFalse, JArr(<<>>), JObj(<<>>),
     JObj(<<KV("foo", JStr("bar"))>>),
     JObj(<<KV("candidates", JArr(<<>>))>>),
     JObj(<<KV("candidates", JNull)>>),
     JObj(<<KV("candidates", JArr(<<JNull>>))>>),
     JObj(<<KV("choices", JStr("abc"))>>),
     JObj(<<KV("choices", JArr(<<JObj(<<KV("message", JNull)>>)>>))>>),
     JObj(<<KV("content", JNum(5))>>),
     JObj(<<KV("content", JStr("plain"))>>),
     JObj(<<KV("response", JObj(<<KV("a", JNum(1))>>))>>)}

ExtractBodies ==
    {GeminiBody(l) : l \in Leaves} \cup {OpenAIBody(l) : l \in Leaves}
    \cup {AnthropicBody(l) : l \in Leaves} \cup CustomBodies \cup OddBodies

ExtractProviders == KnownProviders \cup {JStr("unknown"), JStr("Gemini"), JUndef}

(***************************************************************************)
(* formatMessagesForProvider(provider, messages)                           *)
(***************************************************************************)
\* msg.role / m.role on a null element raises inside map, find or filter.
FormatThrows(provider, messages) ==
    /\ provider \in {"gemini", "anthropic"}
    /\ \E i \in 1..Len(messages.c) : Throws(messages.c[i].v)

IsSystem(m) == Get(m, "role") = JStr("system")

FormatGemini(messages) ==
    JObj(<<KV("contents", JArr([i \in 1..Len(messages.c) |->
        JObj(<<KV("role", IF Get(messages.c[i].v, "role") = JStr("assistant")
                          THEN JStr("model") ELSE JStr("user")),
               KV("parts", JArr(<<JObj(<<KV("text", Get(messages.c[i].v, "content"))>>)>>))>>)]))>>)

FormatOpenAI(messages) ==
    JObj(<<KV("messages", messages),
           KV("temperature", Prim("num", "0.7")),
           KV("max_tokens", JNum(2000))>>)

\* messages.find(m => m.role === 'system')
SystemMsg(messages) ==
    IF \E i \in 1..Len(messages.c) : IsSystem(messages.c[i].v)
    THEN messages.c[CHOOSE i \in 1..Len(messages.c) :
            /\ IsSystem(messages.c[i].v)
            /\ \A j \in 1..(i - 1) : ~IsSystem(messages.c[j].v)].v
    ELSE JUndef

\* Mutation: the system messages are left in the conversation.
ConversationMsgs_Unfiltered(messages) == messages

\* messages.filter(m => m.role !== 'system')
ConversationMsgs(messages) == JArr(SelectSeq(Items(messages), LAMBDA m : ~IsSystem(m)))

FormatAnthropic(messages) ==
    Spread(JObj(<<KV("messages", ConversationMsgs(messages)),
                  KV("max_tokens", JNum(2000))>>),
           IF Truthy(SystemMsg(messages))
           THEN JObj(<<KV("system", Get(SystemMsg(messages), "content"))>>)
           ELSE JObj(<<>>))

FormatDefault(messages) == JObj(<<KV("messages", messages)>>)

formatMessagesForProvider(provider, messages) ==
    CASE provider = "gemini" -> FormatGemini(messages)
      [] provider = "openai" -> FormatOpenAI(messages)
      [] provider = "anthropic" -> FormatAnthropic(messages)
      [] OTHER -> FormatDefault(messages)

(***************************************************************************)
(* app.post('/api/chat'): the synchronous part, up to the fetch call       *)
(***************************************************************************)
API_ENDPOINTS_gemini(model) ==
    "https://generativelanguage.googleapis.com/v1beta/models/" \o model \o ":generateContent"
API_ENDPOINTS_openai == "https://api.openai.com/v1/chat/completions"
API_ENDPOINTS_anthropic == "https://api.anthropic.com/v1/messages"

\* What one run of handler code ends in: a response, the fetch call, or an
\* exception on its way to the catch block.
Respond(status, json) ==
    [kind |-> "respond", status |-> status, json |-> json,
     endpoint |-> JUndef, headers |-> JUndef, body |-> JUndef, err |-> JUndef]
Fetch(endpoint, headers, body) ==
    [kind |-> "fetch", status |-> 0, json |-> JUndef,
     endpoint |-> endpoint, headers |-> headers, body |-> body, err |-> JUndef]
Throw(message) ==
    [kind |-> "throw", status |-> 0, json |-> JUndef,
     endpoint |-> JUndef, headers |-> JUndef, body |-> JUndef, err |-> message]

ErrorResult(message) == JObj(<<KV("success", JFalse), KV("error", message)>>)
SuccessResult(text) == JObj(<<KV("success", JTrue), KV("response", text)>>)

RoleTypeError == JStr("Cannot read properties of null (reading 'role')")
ErrorTypeError == JStr("Cannot read properties of null (reading 'error')")

\* if (!provider || !apiKey || !messages)
MissingFields(b) ==
    \/ ~Truthy(Get(b, "provider"))
    \/ ~Truthy(Get(b, "apiKey"))
    \/ ~Truthy(Get(b, "messages"))

\* Mutation: the length test is forgotten.
NotNonEmptyArray_NoLengthTest(b) == ~IsArray(Get(b, "messages"))

\* if (!Array.isArray(messages) || messages.length === 0)
NotNonEmptyArray(b) ==
    \/ ~IsArray(Get(b, "messages"))
    \/ Len(Get(b, "messages").c) = 0

\* Mutation: headers is one module-level object, so a request starts from
\* what the last request before it left there.
BaseHeaders_Shared(r) ==
    IF \E o \in DOMAIN locals : o # r /\ locals[o].headers # JUndef
    THEN locals[CHOOSE o \in DOMAIN locals : o # r /\ locals[o].headers # JUndef].headers
    ELSE JObj(<<KV("Content-Type", JStr("application/json"))>>)

\* let headers = { 'Content-Type': 'application/json' }: a new object per call.
BaseHeaders(r) == JObj(<<KV("Content-Type", JStr("application/json"))>>)

AdaptGemini(r, b) ==
    IF FormatThrows("gemini", Get(b, "messages")) THEN Throw(RoleTypeError)
    ELSE Fetch(JStr(API_ENDPOINTS_gemini(ToStr(Or(Get(b, "model"), JStr("gemini-2.0-flash-exp"))))
                    \o "?key=" \o ToStr(Get(b, "apiKey"))),
               BaseHeaders(r),
               formatMessagesForProvider("gemini", Get(b, "messages")))

AdaptOpenAI(r, b) ==
    Fetch(JStr(API_ENDPOINTS_openai),
          SetKey(BaseHeaders(r), "Authorization", JStr("Bearer " \o ToStr(Get(b, "apiKey")))),
          Spread(JObj(<<KV("model", Or(Get(b, "model"), JStr("gpt-4o-mini")))>>),
                 formatMessagesForProvider("openai", Get(b, "messages"))))

AdaptAnthropic(r, b) ==
    IF FormatThrows("anthropic", Get(b, "messages")) THEN Throw(RoleTypeError)
    ELSE Fetch(JStr(API_ENDPOINTS_anthropic),
               SetKey(SetKey(BaseHeaders(r), "x-api-key", Get(b, "apiKey")),
                      "anthropic-version", JStr("2023-06-01")),
               Spread(JObj(<<KV("model", Or(Get(b, "model"), JStr("claude-3-5-sonnet-20241022")))>>),
                      formatMessagesForProvider("anthropic", Get(b, "messages"))))

\* Mutation: the customEndpoint test is forgotten.
AdaptCustom_NoEndpointTest(r, b) ==
    Fetch(Get(b, "customEndpoint"),
          SetKey(BaseHeaders(r), "Authorization", JStr("Bearer " \o ToStr(Get(b, "apiKey")))),
          formatMessagesForProvider("custom", Get(b, "messages")))

AdaptCustom(r, b) ==
    IF ~Truthy(Get(b, "customEndpoint"))
    THEN Respond(400, ErrorResult(JStr("Custom endpoint required for custom provider")))
    ELSE Fetch(Get(b, "customEndpoint"),
               SetKey(BaseHeaders(r), "Authorization", JStr("Bearer " \o ToStr(Get(b, "apiKey")))),
               formatMessagesForProvider("custom", Get(b, "messages")))

AdaptDefault(r, b) ==
    Respond(400, ErrorResult(JStr("Unsupported provider: " \o ToStr(Get(b, "provider")))))

\* switch (provider)
Adapt(r, b) ==
    CASE Get(b, "provider") = JStr("gemini") -> AdaptGemini(r, b)
      [] Get(b, "provider") = JStr("openai") -> AdaptOpenAI(r, b)
      [] Get(b, "provider") = JStr("anthropic") -> AdaptAnthropic(r, b)
      [] Get(b, "provider") = JStr("custom") -> AdaptCustom(r, b)
      [] OTHER -> AdaptDefault(r, b)

HandlerStart(r, b) ==
    IF MissingFields(b)
    THEN Respond(400, ErrorResult(JStr("Missing required fields: provider, apiKey, or messages")))
    ELSE IF NotNonEmptyArray(b)
    THEN Respond(400, ErrorResult(JStr("Messages must be a non-empty array")))
    ELSE Adapt(r, b)

(***************************************************************************)
(* app.post('/api/chat'): after the awaits                                 *)
(***************************************************************************)
\* The errorMessage of the !apiResponse.ok branch.
UpstreamErrorMessage(data) ==
    IF Truthy(Get(data, "error"))
    THEN IF Get(data, "error").t = "str"
         THEN Get(data, "error")
         ELSE Or(Get(Get(data, "error"), "message"), JStr(Stringify(Get(data, "error"))))
    ELSE JStr("API request failed")

\* Lines 171-195, run once apiResponse.json() has resolved to data.
HandlerFinish(provider, status, ok, data) ==
    IF ~ok
    THEN IF Throws(data) THEN Throw(ErrorTypeError)
         ELSE Respond(status, ErrorResult(UpstreamErrorMessage(data)))
    ELSE Respond(200, SuccessResult(extractResponseText(provider, data)))

\* Mutation: the fallback text is forgotten.
CatchResult_NoFallback(message) == ErrorResult(message)

\* The catch block's response.
CatchResult(message) == ErrorResult(Or(message, JStr("Internal server error")))

\* res.status(n).json(obj): members holding undefined do not reach the wire.
Response(status, json) ==
    [status |-> status, body |-> JObj(SelectSeq(json.c, LAMBDA m : m.v.t # "undef"))]

\* fetch(endpoint, {method: 'POST', headers, body: JSON.stringify(body)})
FetchCall(step) ==
    [method |-> "POST", url |-> step.endpoint, headers |-> step.headers,
     body |-> Stringify(step.body)]

NoLocals == [endpoint |-> JUndef, headers |-> JUndef, body |-> JUndef]
NoApiResponse == [settled |-> FALSE, status |-> 0, ok |-> FALSE, parsed |-> FALSE, data |-> JUndef]
NoException == [raised |-> FALSE, message |-> JUndef]
Exception(message) == [raised |-> TRUE, message |-> message]

Reqs == DOMAIN pc

exVars == <<exPc, exProvider, exData, exResult>>

\* What a finished run of handler code does to the request's state.
Settle(r, step) ==
    CASE step.kind = "respond" ->
            /\ responses' = [responses EXCEPT ![r] = Append(@, Response(step.status, step.json))]
            /\ pc' = [pc EXCEPT ![r] = "done"]
            /\ UNCHANGED <<locals, calls, caught>>
      [] step.kind = "throw" ->
            /\ caught' = [caught EXCEPT ![r] = Exception(step.err)]
            /\ responses' = [responses EXCEPT ![r] = Append(@, Response(500, CatchResult(step.err)))]
            /\ pc' = [pc EXCEPT ![r] = "done"]
            /\ UNCHANGED <<locals, calls>>
      [] OTHER ->
            /\ locals' = [locals EXCEPT ![r] =
                    [endpoint |-> step.endpoint, headers |-> step.headers, body |-> step.body]]
            /\ calls' = [calls EXCEPT ![r] = Append(@, FetchCall(step))]
            /\ pc' = [pc EXCEPT ![r] = "awaitFetch"]
            /\ UNCHANGED <<responses, caught>>

\* A POST /api/chat arrives with parsed body b; the handler runs to its first await.
Request(r, bodies) ==
    /\ pc[r] = "idle"
    /\ \E b \in bodies :
        /\ reqBody' = [reqBody EXCEPT ![r] = b]
        /\ Settle(r, HandlerStart(r, b))
    /\ UNCHANGED <<apiResponse, exVars>>

\* await fetch(...) resolves with the upstream status line.
FetchResolves(r, statuses) ==
    /\ pc[r] = "awaitFetch"
    /\ \E status \in statuses :
        apiResponse' = [apiResponse EXCEPT ![r] =
            [settled |-> TRUE, status |-> status, ok |-> (status >= 200 /\ status <= 299),
             parsed |-> FALSE, data |-> JUndef]]
    /\ pc' = [pc EXCEPT ![r] = "awaitJson"]
    /\ UNCHANGED <<reqBody, locals, calls, responses, caught, exVars>>

\* Mutation: a failed call is retried once before the failure is reported.
FetchRejects_Retry(r, messages) ==
    /\ pc[r] = "awaitFetch"
    /\ \E message \in messages :
        IF Len(calls[r]) < 2
        THEN /\ calls' = [calls EXCEPT ![r] = Append(@, @[1])]
             /\ UNCHANGED <<pc, locals, responses, caught>>
        ELSE Settle(r, Throw(message))
    /\ UNCHANGED <<reqBody, apiResponse, exVars>>

\* await fetch(...) rejects: transport failure.
FetchRejects(r, messages) ==
    /\ pc[r] = "awaitFetch"
    /\ \E message \in messages : Settle(r, Throw(message))
    /\ UNCHANGED <<reqBody, apiResponse, exVars>>

\* await apiResponse.json() resolves to data; the handler runs to its end.
JsonResolves(r, bodies) ==
    /\ pc[r] = "awaitJson"
    /\ \E data \in bodies :
        /\ apiResponse' = [apiResponse EXCEPT ![r].parsed = TRUE, ![r].data = data]
        /\ Settle(r, HandlerFinish(Get(reqBody[r], "provider"), apiResponse[r].status,
                                   apiResponse[r].ok, data))
    /\ UNCHANGED <<reqBody, exVars>>

\* await apiResponse.json() rejects: the body is not JSON.
JsonRejects(r, messages) ==
    /\ pc[r] = "awaitJson"
    /\ \E message \in messages : Settle(r, Throw(message))
    /\ UNCHANGED <<reqBody, apiResponse, exVars>>

\* extractResponseText called directly.
ExtractCall ==
    /\ exPc = "call"
    /\ exResult' = extractResponseText(exProvider, exData)
    /\ exPc' = "returned"
    /\ UNCHANGED <<pc, reqBody, locals, calls, responses, apiResponse, caught, exProvider, exData>>

(***************************************************************************)
(* Inbound requests and upstream outcomes                                  *)
(***************************************************************************)
MaxMsgs == 2
NumConc == 3

Roles == {"system", "user", "assistant"}
ChatMessage(role, i) == JObj(<<KV("role", JStr(role)), KV("content", JStr("c" \o ToString(i)))>>)
MessageLists ==
    UNION {{JArr([i \in 1..n |-> ChatMessage(f[i], i)]) : f \in [1..n -> Roles]} : n \in 1..MaxMsgs}

ProviderVals ==
    {JUndef, JNull, JStr(""), JStr("unknown"), JNum(7)} \cup KnownProviders
ApiKeyVals == {JUndef, JStr(""), JStr("k1")}
ModelVals == {JUndef, JStr("m1")}
MessagesVals ==
    {JUndef, JNull, JStr(""), JNum(0), JFalse, JStr("hi"), JObj(<<>>), JArr(<<>>),
     JArr(<<JNull>>), JArr(<<JStr("plain")>>)} \cup MessageLists
EndpointVals == {JUndef, JStr(""), JStr("http://c/chat")}

RequestBody(provider, apiKey, model, messages, customEndpoint) ==
    JObj(Member("provider", provider) \o Member("apiKey", apiKey) \o Member("model", model)
         \o Member("messages", messages) \o Member("customEndpoint", customEndpoint))

RequestBodies ==
    {RequestBody(p, k, m, ms, ce) :
        p \in ProviderVals, k \in ApiKeyVals, m \in ModelVals,
        ms \in MessagesVals, ce \in EndpointVals}

Statuses == {200, 401, 503}

ErrorBodies ==
    {JObj(<<KV("error", e)>>) :
        e \in {JStr("bad"), JStr(""), JNull, JNum(5), JNum(0), JTrue,
               JObj(<<KV("message", JStr("bad key"))>>),
               JObj(<<KV("message", JStr("")), KV("code", JNum(1))>>),
               JObj(<<KV("code", JNum(1))>>),
               JObj(<<KV("message", JNum(5))>>),
               JObj(<<KV("message", JObj(<<KV("code", JNum(1))>>))>>),
               JArr(<<JStr("x")>>)}}

ReplyBodies ==
    {GeminiBody(l) : l \in Leaves} \cup {OpenAIBody(l) : l \in Leaves}
    \cup {AnthropicBody(l) : l \in Leaves}
    \cup {CustomBody(r, m, JUndef, JUndef, JUndef) : r \in FieldVals("r"), m \in FieldVals("m")}
    \cup OddBodies \cup ErrorBodies

\* The messages of the exceptions fetch() and apiResponse.json() reject with.
TransportErrors == {JStr("request to upstream failed, reason: connect ECONNREFUSED"), JStr("")}
JsonErrors == {JStr("invalid json response body"), JStr("")}

ConcBodies ==
    {RequestBody(JStr("openai"), JStr("k1"), JUndef, JArr(<<ChatMessage("user", 1)>>), JUndef),
     RequestBody(JStr("anthropic"), JStr("k2"), JUndef, JArr(<<ChatMessage("user", 1)>>), JUndef)}
ConcStatuses == {200, 401}
ConcReplyBodies == {OpenAIBody(JStr("hi"))}
ConcErrors == {JStr("socket hang up")}

(***************************************************************************)
(* Specifications                                                          *)
(***************************************************************************)
InitRequests(ids) ==
    /\ pc = [r \in ids |-> "idle"]
    /\ reqBody = [r \in ids |-> JUndef]
    /\ locals = [r \in ids |-> NoLocals]
    /\ calls = [r \in ids |-> <<>>]
    /\ responses = [r \in ids |-> <<>>]
    /\ apiResponse = [r \in ids |-> NoApiResponse]
    /\ caught = [r \in ids |-> NoException]

ExtractOff ==
    /\ exPc = "off"
    /\ exProvider = JUndef
    /\ exData = JUndef
    /\ exResult = JUndef

\* One request, every input and every upstream outcome.
Init == InitRequests({1}) /\ ExtractOff

Next ==
    \/ \E r \in Reqs : Request(r, RequestBodies)
    \/ \E r \in Reqs : FetchResolves(r, Statuses)
    \/ \E r \in Reqs : FetchRejects(r, TransportErrors)
    \/ \E r \in Reqs : JsonResolves(r, ReplyBodies)
    \/ \E r \in Reqs : JsonRejects(r, JsonErrors)

Spec == Init /\ [][Next]_vars

\* Several requests in flight at once, interleaved at their awaits.
InitConc == InitRequests(1..NumConc) /\ ExtractOff

NextConc ==
    \/ \E r \in Reqs : Request(r, ConcBodies)
    \/ \E r \in Reqs : FetchResolves(r, ConcStatuses)
    \/ \E r \in Reqs : FetchRejects(r, ConcErrors)
    \/ \E r \in Reqs : JsonResolves(r, ConcReplyBodies)
    \/ \E r \in Reqs : JsonRejects(r, ConcErrors)

SpecConc == InitConc /\ [][NextConc]_vars

\* extractResponseText on its own, over every provider identifier and body.
InitExtract ==
    /\ InitRequests({1})
    /\ exPc = "call"
    /\ exProvider \in ExtractProviders
    /\ exData \in ExtractBodies
    /\ exResult = JUndef

NextExtract == ExtractCall

SpecExtract == InitExtract /\ [][NextExtract]_vars

(***************************************************************************)
(* Properties                                                              *)
(***************************************************************************)
Done(r) == pc[r] = "done"
Sent(r) == responses[r][1]
Answered(r, status, json) == responses[r] = <<[status |-> status, body |-> json]>>

IsText(v) == v.t = "str"
IsSuccessShape(j) ==
    /\ j.t = "obj" /\ Len(j.c) = 2
    /\ j.c[1] = KV("success", JTrue)
    /\ j.c[2].k = "response" /\ IsText(j.c[2].v)
IsFailureShape(j) ==
    /\ j.t = "obj" /\ Len(j.c) = 2
    /\ j.c[1] = KV("success", JFalse)
    /\ j.c[2].k = "error" /\ IsText(j.c[2].v)

\* C1: every request ends with exactly one response, and that response is
\* {success:true, response:<text>} or {success:false, error:<text>}; no
\* response is written before the handler ends.
C1_OneChatResult ==
    \A r \in Reqs :
        /\ ~Done(r) => responses[r] = <<>>
        /\ Done(r) =>
            /\ Len(responses[r]) = 1
            /\ IsSuccessShape(Sent(r).body) \/ IsFailureShape(Sent(r).body)

MissingText == JStr("Missing required fields: provider, apiKey, or messages")
NonEmptyText == JStr("Messages must be a non-empty array")
Absent(v) == v.t \in {"undef", "null"}
IsNonEmptyArray(v) == v.t = "arr" /\ Len(v.c) > 0
Required(b) == {Get(b, "provider"), Get(b, "apiKey"), Get(b, "messages")}

\* C2 as stated: an absent provider, apiKey or messages is answered 400 with
\* the missing-fields text; all three present with messages not a non-empty
\* array is answered 400 with the non-empty-array text; no call is made.
C2_PresentButNotArray ==
    \A r \in Reqs : Done(r) =>
        LET b == reqBody[r] IN
        /\ (\E v \in Required(b) : Absent(v)) =>
                Answered(r, 400, ErrorResult(MissingText)) /\ calls[r] = <<>>
        /\ ((\A v \in Required(b) : ~Absent(v)) /\ ~IsNonEmptyArray(Get(b, "messages"))) =>
                Answered(r, 400, ErrorResult(NonEmptyText)) /\ calls[r] = <<>>

\* C2 amended: a provider, apiKey or messages that is absent or falsy (null,
\* false, 0, empty text) is answered 400 with the missing-fields text; all
\* three truthy with messages not a non-empty array is answered 400 with the
\* non-empty-array text; in both cases no call is made.
C2_ValidationNeverReachesUpstream ==
    \A r \in Reqs : Done(r) =>
        LET b == reqBody[r] IN
        /\ (\E v \in Required(b) : ~Truthy(v)) =>
                Answered(r, 400, ErrorResult(MissingText)) /\ calls[r] = <<>>
        /\ ((\A v \in Required(b) : Truthy(v)) /\ ~IsNonEmptyArray(Get(b, "messages"))) =>
                Answered(r, 400, ErrorResult(NonEmptyText)) /\ calls[r] = <<>>

C2_Witness ==
    \E r \in Reqs :
        /\ Done(r)
        /\ Get(reqBody[r], "provider") = JStr("gemini")
        /\ Get(reqBody[r], "apiKey") = JStr("k1")
        /\ Get(reqBody[r], "messages") = JArr(<<>>)
        /\ Answered(r, 400, ErrorResult(NonEmptyText))
        /\ calls[r] = <<>>

\* The request passed validation and adaptation: the handler reached fetch.
Validated(b) ==
    /\ \A v \in Required(b) : Truthy(v)
    /\ IsNonEmptyArray(Get(b, "messages"))
Adapted(r) == locals[r].endpoint # JUndef

\* C3: a request that passes validation and adaptation makes exactly one
\* call, a POST to the adapted URL; no request ever makes a second call,
\* whatever the first call's outcome.
C3_ExactlyOneOutboundCall ==
    \A r \in Reqs :
        /\ Len(calls[r]) <= 1
        /\ Adapted(r) =>
            /\ Len(calls[r]) = 1
            /\ calls[r][1].method = "POST"
            /\ calls[r][1].url = locals[r].endpoint
        /\ (pc[r] \in {"awaitFetch", "awaitJson"} \/ apiResponse[r].settled) => Adapted(r)

C3_Witness ==
    \E r \in Reqs :
        /\ Done(r)
        /\ apiResponse[r].parsed /\ apiResponse[r].status = 503
        /\ Len(calls[r]) = 1
        /\ calls[r][1].url = JStr(API_ENDPOINTS_openai)

\* C4: a non-2xx upstream status with a JSON body is answered with that same
\* status and {success:false, error:<text>}, the text being the body's error
\* field when that is a non-empty text and the error's message field when
\* that is a non-empty text.
C4_UpstreamErrorMirrored ==
    \A r \in Reqs : (Done(r) /\ apiResponse[r].parsed /\ ~apiResponse[r].ok) =>
        LET e == OptGet(apiResponse[r].data, "error") IN
        /\ Len(responses[r]) = 1
        /\ Sent(r).status = apiResponse[r].status
        /\ IsFailureShape(Sent(r).body)
        /\ (IsText(e) /\ e.p # "") => Sent(r).body = ErrorResult(e)
        /\ (e.t = "obj" /\ IsText(Get(e, "message")) /\ Get(e, "message").p # "") =>
                Sent(r).body = ErrorResult(Get(e, "message"))

\* C5: a transport failure, a body that is not JSON, or any other exception
\* in a validated request is answered 500 with {success:false, error:<text>},
\* the text non-empty: the exception's message, or 'Internal server error'
\* when the message is empty.
C5_ExceptionsBecome500 ==
    \A r \in Reqs :
        /\ (Done(r) /\ calls[r] # <<>> /\ ~apiResponse[r].parsed) => caught[r].raised
        /\ caught[r].raised =>
            /\ Done(r) /\ Validated(reqBody[r])
            /\ Len(responses[r]) = 1
            /\ Sent(r).status = 500
            /\ IsFailureShape(Sent(r).body)
            /\ Get(Sent(r).body, "error").p # ""
            /\ Get(Sent(r).body, "error") =
                    (IF caught[r].message.p = "" THEN JStr("Internal server error")
                     ELSE caught[r].message)

C5_Witness ==
    \E r \in Reqs :
        /\ Done(r) /\ calls[r] # <<>> /\ ~apiResponse[r].settled
        /\ caught[r] = Exception(JStr(""))
        /\ Answered(r, 500, ErrorResult(JStr("Internal server error")))

\* C6: a validated request for provider custom without a customEndpoint is
\* answered 400 'Custom endpoint required for custom provider', a validated
\* request for a provider outside gemini, openai, anthropic, custom is
\* answered 400 'Unsupported provider: <provider>'; neither makes a call.
C6_AdaptationFailuresAre400 ==
    \A r \in Reqs : (Done(r) /\ Validated(reqBody[r])) =>
        LET b == reqBody[r] IN
        /\ (Get(b, "provider") = JStr("custom")
                /\ Get(b, "customEndpoint") \in {JUndef, JStr("")}) =>
            /\ Answered(r, 400, ErrorResult(JStr("Custom endpoint required for custom provider")))
            /\ calls[r] = <<>>
        /\ Get(b, "provider") \notin KnownProviders =>
            /\ Answered(r, 400,
                    ErrorResult(JStr("Unsupported provider: " \o Get(b, "provider").p)))
            /\ calls[r] = <<>>

C6_Witness ==
    \E r \in Reqs :
        /\ Done(r) /\ Validated(reqBody[r])
        /\ Get(reqBody[r], "provider") = JStr("custom")
        /\ Get(reqBody[r], "customEndpoint") = JStr("")
        /\ Sent(r).status = 400
        /\ calls[r] = <<>>

\* C7: extractResponseText returns a text for every provider and every body.
C7_ExtractAlwaysText ==
    exPc = "returned" => IsText(exResult)

\* The values at the five paths of a custom body, in the order they are tried.
CustomPaths(data) ==
    <<Get(data, "response"), Get(data, "message"), Get(data, "text"),
      OpenAIPath(data), AnthropicPath(data)>>
ProviderPath(provider, data) ==
    CASE provider = JStr("gemini") -> GeminiPath(data)
      [] provider = JStr("openai") -> OpenAIPath(data)
      [] OTHER -> AnthropicPath(data)
\* first(P, ok): the result is the first value of P that is ok, or other.
FirstWins(P, ok(_), result, other) ==
    \/ \E i \in 1..Len(P) : ok(P[i]) /\ result = P[i] /\ \A j \in 1..(i - 1) : ~ok(P[j])
    \/ (\A i \in 1..Len(P) : ~ok(P[i])) /\ result = other
Present(v) == ~Absent(v)

\* C8 as stated, for a body that is not null: the first path present wins,
\* and the fallback is returned only when no path is present.
C8_FirstPresentWins ==
    (exPc = "returned" /\ ~Throws(exData)) =>
        /\ exProvider = JStr("custom") =>
                FirstWins(CustomPaths(exData), Present, exResult, JStr(Stringify(exData)))
        /\ exProvider \in KnownProviders \ {JStr("custom")} =>
                FirstWins(<<ProviderPath(exProvider, exData)>>, Present, exResult,
                          NoResponseGenerated)

\* C8 amended: the first path whose value is truthy (present and not null,
\* false, 0 or empty text) wins, and the fallback (the serialized body for
\* custom, 'No response generated' for gemini, openai, anthropic) is returned
\* when no path holds a truthy value; a null body gives 'Error parsing
\* response'.
C8_FirstTruthyWins ==
    exPc = "returned" =>
        /\ (exProvider = JStr("custom") /\ ~Throws(exData)) =>
                FirstWins(CustomPaths(exData), Truthy, exResult, JStr(Stringify(exData)))
        /\ (exProvider \in KnownProviders \ {JStr("custom")} /\ ~Throws(exData)) =>
                FirstWins(<<ProviderPath(exProvider, exData)>>, Truthy, exResult,
                          NoResponseGenerated)
        /\ (exProvider \in KnownProviders /\ Throws(exData)) =>
                exResult = ErrorParsingResponse

C8_Witness ==
    /\ exPc = "returned"
    /\ exProvider = JStr("custom")
    /\ Get(exData, "response") = JStr("")
    /\ Get(exData, "message") = JStr("m")
    /\ Get(exData, "text") = JStr("t")
    /\ exResult = JStr("m")

RECURSIVE WithoutSystem(_)
WithoutSystem(msgs) ==
    IF msgs = <<>> THEN <<>>
    ELSE IF Get(Head(msgs), "role") = JStr("system") THEN WithoutSystem(Tail(msgs))
    ELSE <<Head(msgs)>> \o WithoutSystem(Tail(msgs))
RECURSIVE FirstSystemContent(_)
FirstSystemContent(msgs) ==
    IF Get(Head(msgs), "role") = JStr("system") THEN Get(Head(msgs), "content")
    ELSE FirstSystemContent(Tail(msgs))

\* C9: the anthropic body's messages are the input messages whose role is not
\* system, in order; its system field is the content of the first system
\* message, and is missing when there is none; max_tokens is 2000 and model
\* is the caller's model or claude-3-5-sonnet-20241022.
C9_AnthropicAdaptation ==
    \A r \in Reqs : (Adapted(r) /\ Get(reqBody[r], "provider") = JStr("anthropic")) =>
        LET msgs == Items(Get(reqBody[r], "messages"))
            body == locals[r].body
        IN
        /\ Items(Get(body, "messages")) = WithoutSystem(msgs)
        /\ \A i \in 1..Len(Get(body, "messages").c) :
                Get(Get(body, "messages").c[i].v, "role") # JStr("system")
        /\ IF \E i \in 1..Len(msgs) : Get(msgs[i], "role") = JStr("system")
           THEN Get(body, "system") = FirstSystemContent(msgs)
           ELSE ~HasKey(body, "system")
        /\ Get(body, "max_tokens") = JNum(2000)
        /\ Get(body, "model") =
                (IF HasKey(reqBody[r], "model") THEN Get(reqBody[r], "model")
                 ELSE JStr("claude-3-5-sonnet-20241022"))
        /\ calls[r][1].body = Stringify(body)

C9_Witness ==
    \E r \in Reqs :
        /\ Adapted(r)
        /\ Get(reqBody[r], "provider") = JStr("anthropic")
        /\ Get(reqBody[r], "messages") = JArr(<<ChatMessage("system", 1), ChatMessage("user", 2)>>)
        /\ Get(locals[r].body, "system") = JStr("c1")
        /\ Get(locals[r].body, "messages") = JArr(<<ChatMessage("user", 2)>>)

HeaderValues(call) == {call.headers.c[i].v : i \in 1..Len(call.headers.c)}

\* C10: under every interleaving, what a request sends upstream depends only
\* on its own input and what it answers only on its own input and its own
\* upstream reply; no other request's apiKey appears in its call.
C10_RequestsIndependent ==
    \A r1, r2 \in Reqs : r1 # r2 =>
        /\ (reqBody[r1] = reqBody[r2] /\ pc[r1] # "idle") =>
                calls[r1] = calls[r2] /\ locals[r1] = locals[r2]
        /\ (reqBody[r1] = reqBody[r2] /\ Done(r1) /\ Done(r2)
                /\ apiResponse[r1] = apiResponse[r2] /\ caught[r1] = caught[r2]) =>
                responses[r1] = responses[r2]
        /\ (calls[r1] # <<>> /\ pc[r2] # "idle"
                /\ Get(reqBody[r1], "apiKey") # Get(reqBody[r2], "apiKey")) =>
                LET k == Get(reqBody[r2], "apiKey") IN
                HeaderValues(calls[r1][1]) \cap {k, JStr("Bearer " \o k.p)} = {}

C10_Witness ==
    \E r1, r2, r3 \in Reqs :
        /\ r1 # r2 /\ r2 # r3 /\ r1 # r3
        /\ pc[r1] = "awaitFetch" /\ pc[r2] = "awaitJson" /\ Done(r3)
        /\ reqBody[r1] = reqBody[r3]
        /\ Get(reqBody[r1], "apiKey") # Get(reqBody[r2], "apiKey")
        /\ apiResponse[r3].parsed

====
